---- MODULE Spec2Model ----
(***************************************************************************)
(* Calico sensors: the camera's measurement store and configuration        *)
(* (calico/sensors/camera.h, camera_models.cpp) and the gyroscope cost     *)
(* functor (calico/sensors/gyroscope_cost_functor.h).                      *)
(*                                                                         *)
(* camera.h only declares the Camera methods; their bodies (camera.cpp)    *)
(* and camera_models.h are not part of the sources at hand, so the bodies  *)
(* of the Camera operations follow the design document, while             *)
(* ObservationId, the Camera fields, CameraModel::Create and the whole     *)
(* gyroscope functor follow the code.                                      *)
(***************************************************************************)
EXTENDS Integers, Sequences, FiniteSets, TLC

VARIABLES
  \* ---- Camera fields (camera.h:142-149)
  camera_model_,          \* std::unique_ptr<CameraModel>
  intrinsics_,            \* Eigen::VectorXd
  intrinsics_enabled_,    \* bool
  extrinsics_enabled_,    \* bool
  image_size_,            \* ImageSize
  T_sensorrig_sensor_,    \* Pose3d
  id_to_measurement_,     \* flat_hash_map<ObservationId, CameraMeasurement>
  \* ---- the ceres::Problem handed to the latest AddParametersToProblem
  problem,
  \* ---- the latest Camera call: operation, status, value, argument
  call_op,
  call_status,
  call_ret,
  call_arg,
  \* ---- history: the ids whose latest Add/Remove call was an Add
  live,
  \* ---- GyroscopeCostFunctor objects: their three private members
  functors,
  \* ---- one evaluation of operator() per solver thread
  pc,                     \* where the thread is in operator()
  args,                   \* the functor called, the parameters array, and
                          \* what the residual buffer held at the call
  locals,                 \* what operator() has read and computed
  residual,               \* the caller's residual buffer
  ret                     \* the value operator() returned

camVars == << camera_model_, intrinsics_, intrinsics_enabled_,
              extrinsics_enabled_, image_size_, T_sensorrig_sensor_,
              id_to_measurement_, problem, live,
              call_op, call_status, call_ret, call_arg >>

gyroVars == << functors, pc, args, locals, residual, ret >>

vars == << camVars, gyroVars >>

(***************************************************************************)
(* Bounds and input sets                                                   *)
(***************************************************************************)
MaxBatch == 2
MaxCoeff == 2

\* The id of the design document's scenario and the four ids that differ
\* from it in exactly one field.
BaseId == [stamp |-> 0, image_id |-> 1, model_id |-> 0, feature_id |-> 5]
Ids == { BaseId,
         [BaseId EXCEPT !.stamp = 1],
         [BaseId EXCEPT !.image_id = 2],
         [BaseId EXCEPT !.model_id = 1],
         [BaseId EXCEPT !.feature_id = 6] }
BatchIds == { BaseId, [BaseId EXCEPT !.feature_id = 6] }
SensorIds == { BaseId }
Pixels == { <<320, 240>>, <<100, 50>> }

Measurements(ids, pixels) == [pixel : pixels, id : ids]

\* All sequences over S of length at most n.
SeqUpTo(S, n) == UNION { [1..k -> S] : k \in 0..n }

(***************************************************************************)
(* ObservationId (camera.h:23-40)                                          *)
(***************************************************************************)
\* A comparison that reads model_id where feature_id is meant.
IdEq_WrongField(lhs, rhs) ==
  /\ lhs.stamp = rhs.stamp
  /\ lhs.image_id = rhs.image_id
  /\ lhs.model_id = rhs.model_id
  /\ lhs.feature_id = rhs.model_id

\* operator==(const ObservationId&, const ObservationId&)
IdEq(lhs, rhs) ==
  /\ lhs.stamp = rhs.stamp
  /\ lhs.image_id = rhs.image_id
  /\ lhs.model_id = rhs.model_id
  /\ lhs.feature_id = rhs.feature_id

\* AbslHashValue: H::combine over the four fields.
IdHash(id) == << id.stamp, id.image_id, id.model_id, id.feature_id >>

\* flat_hash_map lookup: the entries whose key hashes like id and equals it.
Find(store, id) ==
  { e \in store : IdHash(e.id) = IdHash(id) /\ IdEq(e.id, id) }

Contains(store, id) == Find(store, id) # {}

Keys(store) == { e.id : e \in store }

(***************************************************************************)
(* Camera: measurement store                                               *)
(***************************************************************************)
Ok == "Ok"
DuplicateEntry == "DuplicateEntry"
NotFound == "NotFound"
ConfigurationError == "ConfigurationError"

\* What a Camera call leaves behind for its caller.
Call(op, arg, status, value) ==
  /\ call_op' = op
  /\ call_status' = status
  /\ call_ret' = value
  /\ call_arg' = arg

NoValue == "none"

\* Camera::NumberOfMeasurements
NumberOfMeasurements == Cardinality(id_to_measurement_)

confVars == << camera_model_, intrinsics_, intrinsics_enabled_,
               extrinsics_enabled_, image_size_, T_sensorrig_sensor_, problem >>

\* Camera::AddMeasurement
AddMeasurement(m) ==
  /\ IF Contains(id_to_measurement_, m.id)
       THEN /\ id_to_measurement_' = id_to_measurement_
            /\ Call("AddMeasurement", m, DuplicateEntry, NoValue)
       ELSE /\ id_to_measurement_' = id_to_measurement_ \cup {m}
            /\ Call("AddMeasurement", m, Ok, NoValue)
  /\ live' = live \cup {m.id}
  /\ UNCHANGED confVars
  /\ UNCHANGED gyroVars

\* Camera::RemoveMeasurementById
RemoveMeasurementById(id) ==
  /\ IF Contains(id_to_measurement_, id)
       THEN /\ id_to_measurement_' = id_to_measurement_ \ Find(id_to_measurement_, id)
            /\ Call("RemoveMeasurementById", id, Ok, NoValue)
       ELSE /\ id_to_measurement_' = id_to_measurement_
            /\ Call("RemoveMeasurementById", id, NotFound, NoValue)
  /\ live' = live \ {id}
  /\ UNCHANGED confVars
  /\ UNCHANGED gyroVars

\* The loop of AddMeasurements: elements i..Len(list) processed in order on
\* store s; rejected says whether an earlier element was rejected.
RECURSIVE AddLoop(_, _, _, _)
AddLoop(s, list, i, rejected) ==
  IF i > Len(list) THEN [store |-> s, rejected |-> rejected]
  ELSE IF Contains(s, list[i].id)
         THEN AddLoop(s, list, i + 1, TRUE)
         ELSE AddLoop(s \cup {list[i]}, list, i + 1, rejected)

\* Camera::AddMeasurements
AddMeasurements(list) ==
  LET r == AddLoop(id_to_measurement_, list, 1, FALSE) IN
  /\ id_to_measurement_' = r.store
  /\ Call("AddMeasurements", list,
                  IF r.rejected THEN DuplicateEntry ELSE Ok, NoValue)
  /\ live' = live \cup { list[i].id : i \in 1..Len(list) }
  /\ UNCHANGED confVars
  /\ UNCHANGED gyroVars

RECURSIVE RemoveLoop(_, _, _, _)
RemoveLoop(s, ids, i, rejected) ==
  IF i > Len(ids) THEN [store |-> s, rejected |-> rejected]
  ELSE IF Contains(s, ids[i])
         THEN RemoveLoop(s \ Find(s, ids[i]), ids, i + 1, rejected)
         ELSE RemoveLoop(s, ids, i + 1, TRUE)

\* Camera::RemoveMeasurementsById
RemoveMeasurementsById(ids) ==
  LET r == RemoveLoop(id_to_measurement_, ids, 1, FALSE) IN
  /\ id_to_measurement_' = r.store
  /\ Call("RemoveMeasurementsById", ids,
                  IF r.rejected THEN NotFound ELSE Ok, NoValue)
  /\ live' = live \ { ids[i] : i \in 1..Len(ids) }
  /\ UNCHANGED confVars
  /\ UNCHANGED gyroVars

\* Camera::ClearMeasurements
ClearMeasurements ==
  /\ id_to_measurement_' = {}
  /\ Call("ClearMeasurements", NoValue, Ok, NoValue)
  /\ live' = {}
  /\ UNCHANGED confVars
  /\ UNCHANGED gyroVars

(***************************************************************************)
(* Camera models (camera_models.cpp)                                       *)
(***************************************************************************)
NullModel == "null"

\* CameraIntrinsicsModel tags: the two the factory knows and two others.
Kinds == { "kOpenCv5", "kKannalaBrandt", "kNone", "kUnrecognized" }

\* A factory whose second case is missing.
Create_NoKannalaBrandt(camera_model) ==
  CASE camera_model = "kOpenCv5" -> "OpenCv5Model"
    [] OTHER -> NullModel

\* CameraModel::Create
Create(camera_model) ==
  CASE camera_model = "kOpenCv5" -> "OpenCv5Model"
    [] camera_model = "kKannalaBrandt" -> "KannalaBrandtModel"
    [] OTHER -> NullModel

\* CameraModel::NumberOfParameters of the two concrete models.
NumberOfParameters(model) ==
  CASE model = "OpenCv5Model" -> 8
    [] model = "KannalaBrandtModel" -> 7

\* Quaternion (4) and translation (3) of the extrinsics.
ExtrinsicsBlockSize == 7

(***************************************************************************)
(* Camera: configuration                                                   *)
(***************************************************************************)
\* The value of a member that was never written.
Indeterminate == [written |-> FALSE]
Written(v) == [written |-> TRUE, value |-> v]

\* What reading a bool member yields.
ReadFlag(flag) == IF flag.written THEN { flag.value } ELSE BOOLEAN

\* What a default-constructed unique_ptr<CameraModel> holds.
DefaultModel_Preset == "OpenCv5Model"

DefaultModel == NullModel

Constant(n, c) == [i \in 1..n |-> c]

\* Vectors handed to SetIntrinsics: the sizes of both models, one less than
\* each, and the size 3 of the design document's scenario.
IntrinsicsSizes == { 3, 6, 7, 8 }
IntrinsicsInputs == { Constant(n, c) : n \in IntrinsicsSizes, c \in 1..MaxCoeff }

Poses == { "identity", "T_sensorrig_sensor" }
ImageSizes == { [width |-> 640, height |-> 480], [width |-> 0, height |-> 480],
                [width |-> 640, height |-> -1] }

storeVars == << id_to_measurement_, live >>

\* Camera::GetIntrinsics
GetIntrinsics == intrinsics_

\* Camera::SetModel.  A rejected kind is reported; the design document does
\* not say whether the previous model survives it, so both are admitted.  An
\* accepted kind replaces the stored intrinsics by a fresh vector of the
\* model's parameter count.
SetModel(kind) ==
  LET m == Create(kind) IN
  /\ IF m = NullModel
       THEN /\ camera_model_' \in { camera_model_, NullModel }
            /\ intrinsics_' = intrinsics_
            /\ Call("SetModel", kind, ConfigurationError, NoValue)
       ELSE /\ camera_model_' = m
            /\ intrinsics_' = Constant(NumberOfParameters(m), 0)
            /\ Call("SetModel", kind, Ok, NoValue)
  /\ UNCHANGED << intrinsics_enabled_, extrinsics_enabled_, image_size_,
                  T_sensorrig_sensor_, problem, storeVars >>
  /\ UNCHANGED gyroVars

\* A SetIntrinsics without the size check.
SetIntrinsics_NoSizeCheck(v) ==
  /\ IF camera_model_ = NullModel
       THEN /\ intrinsics_' = intrinsics_
            /\ Call("SetIntrinsics", v, ConfigurationError, NoValue)
       ELSE /\ intrinsics_' = v
            /\ Call("SetIntrinsics", v, Ok, NoValue)
  /\ UNCHANGED << camera_model_, intrinsics_enabled_, extrinsics_enabled_,
                  image_size_, T_sensorrig_sensor_, problem, storeVars >>
  /\ UNCHANGED gyroVars

\* Camera::SetIntrinsics
SetIntrinsics(v) ==
  /\ IF camera_model_ = NullModel
       THEN /\ intrinsics_' = intrinsics_
            /\ Call("SetIntrinsics", v, ConfigurationError, NoValue)
       ELSE IF Len(v) # NumberOfParameters(camera_model_)
         THEN /\ intrinsics_' = intrinsics_
              /\ Call("SetIntrinsics", v, ConfigurationError, NoValue)
         ELSE /\ intrinsics_' = v
              /\ Call("SetIntrinsics", v, Ok, NoValue)
  /\ UNCHANGED << camera_model_, intrinsics_enabled_, extrinsics_enabled_,
                  image_size_, T_sensorrig_sensor_, problem, storeVars >>
  /\ UNCHANGED gyroVars

\* Camera::SetExtrinsics
SetExtrinsics(T) ==
  /\ T_sensorrig_sensor_' = T
  /\ Call("SetExtrinsics", T, Ok, NoValue)
  /\ UNCHANGED << camera_model_, intrinsics_, intrinsics_enabled_,
                  extrinsics_enabled_, image_size_, problem, storeVars >>
  /\ UNCHANGED gyroVars

\* Camera::SetImageSize
SetImageSize(size) ==
  /\ IF size.width <= 0 \/ size.height <= 0
       THEN /\ image_size_' = image_size_
            /\ Call("SetImageSize", size, ConfigurationError, NoValue)
       ELSE /\ image_size_' = Written(size)
            /\ Call("SetImageSize", size, Ok, NoValue)
  /\ UNCHANGED << camera_model_, intrinsics_, intrinsics_enabled_,
                  extrinsics_enabled_, T_sensorrig_sensor_, problem, storeVars >>
  /\ UNCHANGED gyroVars

\* Camera::EnableExtrinsicsParameters
EnableExtrinsicsParameters(enable) ==
  /\ extrinsics_enabled_' = Written(enable)
  /\ Call("EnableExtrinsicsParameters", enable, Ok, NoValue)
  /\ UNCHANGED << camera_model_, intrinsics_, intrinsics_enabled_,
                  image_size_, T_sensorrig_sensor_, problem, storeVars >>
  /\ UNCHANGED gyroVars

\* Camera::EnableIntrinsicsParameters
EnableIntrinsicsParameters(enable) ==
  /\ intrinsics_enabled_' = Written(enable)
  /\ Call("EnableIntrinsicsParameters", enable, Ok, NoValue)
  /\ UNCHANGED << camera_model_, intrinsics_, extrinsics_enabled_,
                  image_size_, T_sensorrig_sensor_, problem, storeVars >>
  /\ UNCHANGED gyroVars

\* A ceres::Problem holding no block of this sensor.
EmptyProblem == {}

Block(name, size, constant) ==
  [block |-> name, size |-> size, constant |-> constant]

\* An AddParametersToProblem that leaves a disabled block out of the problem.
AddParametersToProblem_SkipDisabled ==
  /\ IF camera_model_ = NullModel
       THEN /\ problem' = EmptyProblem
            /\ Call("AddParametersToProblem", NoValue,
                            ConfigurationError, NoValue)
       ELSE LET n == NumberOfParameters(camera_model_) IN
            /\ \E ie \in ReadFlag(intrinsics_enabled_), ee \in ReadFlag(extrinsics_enabled_) :
                 problem' =
                   (IF ie THEN { Block("intrinsics", n, FALSE) } ELSE {})
                   \cup
                   (IF ee THEN { Block("extrinsics", ExtrinsicsBlockSize, FALSE) } ELSE {})
            /\ Call("AddParametersToProblem", NoValue, Ok,
                            n + ExtrinsicsBlockSize)
  /\ UNCHANGED << camera_model_, intrinsics_, intrinsics_enabled_,
                  extrinsics_enabled_, image_size_, T_sensorrig_sensor_,
                  storeVars >>
  /\ UNCHANGED gyroVars

\* Camera::AddParametersToProblem, called on a problem that holds no block
\* of this sensor yet; problem is that problem after the call.
AddParametersToProblem ==
  /\ IF camera_model_ = NullModel
       THEN /\ problem' = EmptyProblem
            /\ Call("AddParametersToProblem", NoValue,
                            ConfigurationError, NoValue)
       ELSE LET n == NumberOfParameters(camera_model_) IN
            /\ \E ie \in ReadFlag(intrinsics_enabled_), ee \in ReadFlag(extrinsics_enabled_) :
                 problem' =
                   { Block("intrinsics", n, ~ie),
                     Block("extrinsics", ExtrinsicsBlockSize, ~ee) }
            /\ Call("AddParametersToProblem", NoValue, Ok,
                            n + ExtrinsicsBlockSize)
  /\ UNCHANGED << camera_model_, intrinsics_, intrinsics_enabled_,
                  extrinsics_enabled_, image_size_, T_sensorrig_sensor_,
                  storeVars >>
  /\ UNCHANGED gyroVars

(***************************************************************************)
(* Gyroscope cost functor (gyroscope_cost_functor.h)                       *)
(*                                                                         *)
(* Angles are whole multiples of 1e-8 rad, so the small-angle threshold    *)
(* 1e-7 is 10 units.  A scalar that depends on the Jacobian coefficients   *)
(* c1 and c2 is kept exactly, as k + k1*c1 + k2*c2 with integer k, k1, k2. *)
(***************************************************************************)
\* GyroscopeParameterIndices
kIntrinsicsIndex == 0
kExtrinsicsRotationIndex == 1
kExtrinsicsTranslationIndex == 2
kLatencyIndex == 3
kSensorRigPoseSplineControlPointsIndex == 7

kGyroscopeResidualSize == 3

\* Stands for Trajectory::kSplineOrder, the number of control points in the
\* window of one spline segment.
SplineOrder == 2

\* (1e-7 / 1e-8)^2: theta < 1e-7 in squared angle units.
SmallAngleSq == 100

FunctorIds == { 1, 2 }
Threads == { 1, 2 }
NoFunctor == [constructed |-> FALSE]

\* ---- exact scalars k + k1*c1 + k2*c2
Lin(k, k1, k2) == [k |-> k, k1 |-> k1, k2 |-> k2]
LinSub(a, b) == Lin(a.k - b.k, a.k1 - b.k1, a.k2 - b.k2)
LinScale(n, a) == Lin(n * a.k, n * a.k1, n * a.k2)

\* ---- 3-vectors of integers
Cross(a, b) == << a[2] * b[3] - a[3] * b[2],
                  a[3] * b[1] - a[1] * b[3],
                  a[1] * b[2] - a[2] * b[1] >>
Dot(a, b) == a[1] * b[1] + a[2] * b[2] + a[3] * b[3]
Neg(a) == << -a[1], -a[2], -a[3] >>

\* GyroscopeCostFunctor::skew
skew(v) == << << 0, -v[3], v[2] >>,
              << v[3], 0, -v[1] >>,
              << -v[2], v[1], 0 >> >>

MatVec(M, v) == << Dot(M[1], v), Dot(M[2], v), Dot(M[3], v) >>

\* Eigen: q.inverse() * v for a unit quaternion q = (x, y, z, w), which is
\* the rotation by the conjugate.
RotateInverse(q, v) ==
  LET u == << -q[1], -q[2], -q[3] >>
      w == q[4]
      uv == Cross(u, v)
      uuv == Cross(u, uv) IN
  << v[1] + 2 * (w * uv[1] + uuv[1]),
     v[2] + 2 * (w * uv[2] + uuv[2]),
     v[3] + 2 * (w * uv[3] + uuv[3]) >>

\* ---- the collaborators of operator()
\* The one gyroscope model: a scale factor.
GyroscopeModels == { "kGyroscopeScaleOnly" }
GyroNumberOfParameters(model) == 1

\* CreateCostFunction: the sizes of the parameter blocks of a functor.
BlockSizes(f) ==
  << GyroNumberOfParameters(f.gyroscope_model_), 4, 3, 1,
     6 * f.trajectory_evaluation_params_.num_control_points >>

NumBlocks(f) == Len(BlockSizes(f))

\* BSpline::Evaluate on a window of control points: the pose vector
\* (derivative 0) or its rate (derivative 1) at time stamp.
Evaluate(control_points, stamp, derivative) ==
  LET n == Len(control_points)
      first == control_points[1]
      last == control_points[n] IN
  [c \in 1..6 |->
     IF derivative = 0
       THEN first[c] + stamp * (last[c] - first[c])
       ELSE last[c] - first[c]]

Invalid == [ok |-> FALSE]
Valid(v) == [ok |-> TRUE, value |-> v]

\* GyroscopeModel::Project: the scaled angular velocity, or invalid input
\* for a scale of zero.
Project(model, intrinsics, omega) ==
  IF intrinsics[1] = 0 THEN Invalid
  ELSE Valid([i \in 1..3 |-> LinScale(intrinsics[1], omega[i])])

\* ---- operator(), lines 102-130
\* c1 and c2 (lines 107-121): none for theta_sq = 0, the Taylor value below
\* the threshold, the closed form from it on.
Coefficients(theta_sq) ==
  IF theta_sq = 0 THEN [form |-> "none", theta_sq |-> 0]
  ELSE IF theta_sq < SmallAngleSq
    THEN [form |-> "taylor", theta_sq |-> theta_sq]
    ELSE [form |-> "closed", theta_sq |-> theta_sq]

\* J * phi_dot for J = I + c1 * phi_x + c2 * phi_x * phi_x (lines 105-124),
\* rotated by q.inverse() (line 130).
AngularVelocity(q, pose_vector, pose_dot_vector) ==
  LET phi == Neg(SubSeq(pose_vector, 1, 3))
      phi_dot == Neg(SubSeq(pose_dot_vector, 1, 3))
      theta_sq == Dot(phi, phi)
      phi_x == skew(phi)
      t1 == IF theta_sq # 0 THEN MatVec(phi_x, phi_dot) ELSE << 0, 0, 0 >>
      t2 == IF theta_sq # 0 THEN MatVec(phi_x, MatVec(phi_x, phi_dot))
                            ELSE << 0, 0, 0 >>
      r0 == RotateInverse(q, phi_dot)
      r1 == RotateInverse(q, t1)
      r2 == RotateInverse(q, t2) IN
  [c |-> Coefficients(theta_sq),
   omega |-> [i \in 1..3 |-> Lin(r0[i], r1[i], r2[i])]]

\* A residual with the operands swapped.
Residual_Swapped(measurement, projection) ==
  [i \in 1..kGyroscopeResidualSize |->
     LinSub(projection[i], Lin(measurement[i], 0, 0))]

\* error = measurement - *projection (lines 135-137)
Residual(measurement, projection) ==
  [i \in 1..kGyroscopeResidualSize |->
     LinSub(Lin(measurement[i], 0, 0), projection[i])]

(***************************************************************************)
(* Gyroscope cost functor: construction and evaluation                     *)
(***************************************************************************)
Measured == { << 1, 2, 3 >>, << 0, 0, 0 >> }

\* Control points: num_control_points rows of six, scaled by a.
ControlPoints(n, a) == [r \in 1..n |-> << a * r, a, 0, r, 0, 0 >>]
Amplitudes == { 0, 1, 5 }

\* Unit quaternions (x, y, z, w): the identity and a half turn about z.
Quaternions == { << 0, 0, 0, 1 >>, << 0, 0, 1, 0 >> }

\* The parameters arrays the solver passes for functor f: one block per
\* entry of BlockSizes(f).
ParameterArrays(f) ==
  { << << s >>, q, << 0, 0, 0 >>, << 0 >>,
       ControlPoints(f.trajectory_evaluation_params_.num_control_points, 1) >> :
      s \in { 0, 2 }, q \in Quaternions }

\* What the residual buffer holds before an evaluation.
FreshBuffer == [i \in 1..kGyroscopeResidualSize |-> Lin(9, 9, 9)]

Idle == [fn |-> 0, parameters |-> << >>, buffer0 |-> << >>]
NoLocals == [positions |-> {}, faulted |-> FALSE,
             all_control_points |-> << >>, projection |-> Invalid]

\* GyroscopeCostFunctor::GyroscopeCostFunctor: the measurement, the model and
\* the trajectory's evaluation parameters for the stamp are captured.
Construct(f, measurement, model, spline_index) ==
  /\ ~functors[f].constructed
  /\ functors' = [functors EXCEPT ![f] =
       [constructed |-> TRUE,
        measurement_ |-> measurement,
        gyroscope_model_ |-> model,
        trajectory_evaluation_params_ |->
          [stamp |-> 1, spline_index |-> spline_index,
           num_control_points |-> SplineOrder + 1]]]
  /\ UNCHANGED << pc, args, locals, residual, ret >>
  /\ UNCHANGED camVars

\* The solver calls operator() of functor f on thread t.
Enter(t, f, parameters) ==
  /\ pc[t] = "idle"
  /\ functors[f].constructed
  /\ pc' = [pc EXCEPT ![t] = "entered"]
  /\ args' = [args EXCEPT ![t] =
       [fn |-> f, parameters |-> parameters, buffer0 |-> FreshBuffer]]
  /\ residual' = [residual EXCEPT ![t] = FreshBuffer]
  /\ ret' = [ret EXCEPT ![t] = "none"]
  /\ locals' = [locals EXCEPT ![t] = NoLocals]
  /\ UNCHANGED functors
  /\ UNCHANGED camVars

\* parameters[index] for an index past the last block: a pointer that is no
\* block of the array.  Dereferencing it faults or yields whatever lies there.
Garbage(n) == { ControlPoints(n, a) : a \in Amplitudes }

\* operator() lines 59-86: the five blocks are located by their
\* GyroscopeParameterIndices.
Parse(t) ==
  LET f == functors[args[t].fn]
      p == args[t].parameters
      n == f.trajectory_evaluation_params_.num_control_points
      index == kSensorRigPoseSplineControlPointsIndex
      positions == { kIntrinsicsIndex, kExtrinsicsRotationIndex,
                     kExtrinsicsTranslationIndex, kLatencyIndex, index } IN
  /\ pc[t] = "entered"
  /\ IF index < Len(p)
       THEN /\ pc' = [pc EXCEPT ![t] = "parsed"]
            /\ locals' = [locals EXCEPT ![t] =
                 [positions |-> positions, faulted |-> FALSE,
                  all_control_points |-> p[index + 1], projection |-> Invalid]]
       ELSE \/ /\ pc' = [pc EXCEPT ![t] = "fault"]
               /\ locals' = [locals EXCEPT ![t] =
                    [positions |-> positions, faulted |-> TRUE,
                     all_control_points |-> << >>, projection |-> Invalid]]
            \/ \E g \in Garbage(n) :
               /\ pc' = [pc EXCEPT ![t] = "parsed"]
               /\ locals' = [locals EXCEPT ![t] =
                    [positions |-> positions, faulted |-> FALSE,
                     all_control_points |-> g, projection |-> Invalid]]
  /\ UNCHANGED << functors, args, residual, ret >>
  /\ UNCHANGED camVars

\* operator() lines 84-140: the window is sliced, pose and rate evaluated,
\* the angular velocity projected, and the residual written if that is valid.
Finish(t) ==
  LET f == functors[args[t].fn]
      p == args[t].parameters
      tep == f.trajectory_evaluation_params_
      intrinsics == p[kIntrinsicsIndex + 1]
      q == p[kExtrinsicsRotationIndex + 1]
      latency == p[kLatencyIndex + 1][1]
      control_points ==
        SubSeq(locals[t].all_control_points, tep.spline_index + 1,
               tep.spline_index + SplineOrder)
      stamp == tep.stamp - latency
      pose_vector == Evaluate(control_points, stamp, 0)
      pose_dot_vector == Evaluate(control_points, stamp, 1)
      omega_sensor_world == AngularVelocity(q, pose_vector, pose_dot_vector)
      projection == Project(f.gyroscope_model_, intrinsics, omega_sensor_world.omega) IN
  /\ pc[t] = "parsed"
  /\ pc' = [pc EXCEPT ![t] = "done"]
  /\ locals' = [locals EXCEPT ![t].projection = projection]
  /\ IF projection.ok
       THEN /\ residual' = [residual EXCEPT ![t] =
                 Residual(f.measurement_, projection.value)]
            /\ ret' = [ret EXCEPT ![t] = "true"]
       ELSE /\ residual' = residual
            /\ ret' = [ret EXCEPT ![t] = "false"]
  /\ UNCHANGED << functors, args >>
  /\ UNCHANGED camVars

\* The solver takes the result; the thread is free for the next evaluation.
Release(t) ==
  /\ pc[t] = "done"
  /\ pc' = [pc EXCEPT ![t] = "idle"]
  /\ args' = [args EXCEPT ![t] = Idle]
  /\ locals' = [locals EXCEPT ![t] = NoLocals]
  /\ residual' = [residual EXCEPT ![t] = FreshBuffer]
  /\ ret' = [ret EXCEPT ![t] = "none"]
  /\ UNCHANGED functors
  /\ UNCHANGED camVars

(***************************************************************************)
(* Specifications                                                          *)
(***************************************************************************)
\* Camera() = default: the model pointer is null, the vector and the map are
\* empty; the two flags and the image size have no initializer, so they
\* stay indeterminate until a setter writes them.
InitCamera ==
  /\ camera_model_ = DefaultModel
  /\ intrinsics_ = << >>
  /\ intrinsics_enabled_ = Indeterminate
  /\ extrinsics_enabled_ = Indeterminate
  /\ image_size_ = Indeterminate
  /\ T_sensorrig_sensor_ = "identity"
  /\ id_to_measurement_ = {}
  /\ problem = EmptyProblem
  /\ call_op = "Camera"
  /\ call_status = Ok
  /\ call_ret = NoValue
  /\ call_arg = NoValue
  /\ live = {}

InitGyro ==
  /\ functors = [f \in FunctorIds |-> NoFunctor]
  /\ pc = [t \in Threads |-> "idle"]
  /\ args = [t \in Threads |-> Idle]
  /\ locals = [t \in Threads |-> NoLocals]
  /\ residual = [t \in Threads |-> FreshBuffer]
  /\ ret = [t \in Threads |-> "none"]

Init == InitCamera /\ InitGyro

\* The measurement store under single and batch calls.
NextStore ==
  \/ \E m \in Measurements(Ids, Pixels) : AddMeasurement(m)
  \/ \E id \in Ids : RemoveMeasurementById(id)
  \/ \E list \in SeqUpTo(Measurements(BatchIds, Pixels), MaxBatch) : AddMeasurements(list)
  \/ \E ids \in SeqUpTo(BatchIds, MaxBatch) : RemoveMeasurementsById(ids)
  \/ ClearMeasurements

SpecStore == Init /\ [][NextStore]_vars

\* The sensor's configuration, with measurements coming and going.
NextSensor ==
  \/ \E kind \in Kinds : SetModel(kind)
  \/ \E v \in IntrinsicsInputs : SetIntrinsics(v)
  \/ \E T \in Poses : SetExtrinsics(T)
  \/ \E size \in ImageSizes : SetImageSize(size)
  \/ \E b \in BOOLEAN : EnableExtrinsicsParameters(b)
  \/ \E b \in BOOLEAN : EnableIntrinsicsParameters(b)
  \/ AddParametersToProblem
  \/ \E m \in Measurements(SensorIds, { <<320, 240>> }) : AddMeasurement(m)
  \/ \E id \in SensorIds : RemoveMeasurementById(id)
  \/ ClearMeasurements

SpecSensor == Init /\ [][NextSensor]_vars

NextGyro ==
  \/ \E f \in FunctorIds, m \in Measured, model \in GyroscopeModels,
        i \in 0..1 : Construct(f, m, model, i)
  \/ \E t \in Threads, f \in FunctorIds :
       /\ functors[f].constructed
       /\ \E p \in ParameterArrays(functors[f]) : Enter(t, f, p)
  \/ \E t \in Threads : Parse(t)
  \/ \E t \in Threads : Finish(t)
  \/ \E t \in Threads : Release(t)

SpecGyro == Init /\ [][NextGyro]_vars

(***************************************************************************)
(* Camera: properties                                                      *)
(***************************************************************************)
Recognized == { "kOpenCv5", "kKannalaBrandt" }

sensorState == << camera_model_, intrinsics_, intrinsics_enabled_,
                  extrinsics_enabled_, image_size_, T_sensorrig_sensor_,
                  id_to_measurement_ >>

\* The store holds exactly one measurement per live id.
C1_Count ==
  /\ NumberOfMeasurements = Cardinality(live)
  /\ Keys(id_to_measurement_) = live

\* A single Add is rejected exactly when its id is stored, a single Remove
\* exactly when its id is not, and a rejected call leaves the store as it was.
C1_Step ==
  /\ call_op' = "AddMeasurement" =>
       /\ call_status' \in { Ok, DuplicateEntry }
       /\ call_status' = DuplicateEntry <=> call_arg'.id \in Keys(id_to_measurement_)
       /\ call_status' = DuplicateEntry => id_to_measurement_' = id_to_measurement_
       /\ call_status' = Ok => call_arg' \in id_to_measurement_'
  /\ call_op' = "RemoveMeasurementById" =>
       /\ call_status' \in { Ok, NotFound }
       /\ call_status' = NotFound <=> call_arg' \notin Keys(id_to_measurement_)
       /\ call_status' = NotFound => id_to_measurement_' = id_to_measurement_
       /\ call_status' = Ok => call_arg' \notin Keys(id_to_measurement_')

\* C1: after any sequence of AddMeasurement and RemoveMeasurementById calls
\* from the empty store, NumberOfMeasurements() is the number of distinct ids
\* added and not since removed; adding a stored id fails with DuplicateEntry,
\* removing an id that is not stored fails with NotFound, and a failed call
\* leaves keys and stored measurements (pixels included) unchanged.
C1_StoreCountsDistinctIds == [] C1_Count /\ [][C1_Step]_vars

\* A duplicate Add carrying another pixel was rejected and the pixel first
\* stored under that id is still there, with other ids beside it.
C1_Witness ==
  /\ call_op = "AddMeasurement"
  /\ call_status = DuplicateEntry
  /\ \E e \in id_to_measurement_ : e.id = call_arg.id /\ e.pixel # call_arg.pixel
  /\ NumberOfMeasurements >= 2

\* Element i of an AddMeasurements list is accepted on store S when its id
\* is neither in S nor carried by an earlier element.
Accepted(S, list, i) ==
  /\ list[i].id \notin Keys(S)
  /\ \A j \in 1..(i - 1) : list[j].id # list[i].id

\* Element i of a RemoveMeasurementsById list is present on store S when its
\* id is in S and no earlier element names it.
Present(S, ids, i) ==
  /\ ids[i] \in Keys(S)
  /\ \A j \in 1..(i - 1) : ids[j] # ids[i]

C2_Step ==
  /\ call_op' = "AddMeasurements" =>
       LET list == call_arg'
           S == id_to_measurement_ IN
       /\ id_to_measurement_' =
            S \cup { list[i] : i \in { k \in 1..Len(list) : Accepted(S, list, k) } }
       /\ call_status' \in { Ok, DuplicateEntry }
       /\ call_status' = DuplicateEntry <=>
            \E i \in 1..Len(list) : ~Accepted(S, list, i)
  /\ call_op' = "RemoveMeasurementsById" =>
       LET ids == call_arg'
           S == id_to_measurement_ IN
       /\ id_to_measurement_' =
            { e \in S : \A i \in 1..Len(ids) : e.id # ids[i] }
       /\ call_status' \in { Ok, NotFound }
       /\ call_status' = NotFound <=>
            \E i \in 1..Len(ids) : ~Present(S, ids, i)

\* C2: AddMeasurements stores every element whose id is not stored when the
\* element is processed (of two elements with one id, the first) and reports
\* DuplicateEntry exactly when an element was rejected; RemoveMeasurementsById
\* erases every listed id that is stored when processed and reports NotFound
\* exactly when a listed id was not; both process the whole list.
C2_BatchPartialSuccess == [][C2_Step]_vars

\* A batch whose first element was rejected and whose second was stored.
C2_Witness ==
  /\ call_op = "AddMeasurements"
  /\ call_status = DuplicateEntry
  /\ Len(call_arg) >= 2
  /\ call_arg[1] \notin id_to_measurement_
  /\ call_arg[2] \in id_to_measurement_
  /\ call_arg[2].id # call_arg[1].id

C3_Step ==
  camera_model_ = NullModel =>
    /\ call_op' = "SetIntrinsics" =>
         /\ call_status' = ConfigurationError
         /\ UNCHANGED << sensorState, problem >>
    /\ call_op' = "AddParametersToProblem" =>
         /\ call_status' = ConfigurationError
         /\ UNCHANGED sensorState
         /\ problem' = EmptyProblem

\* C3: a camera starts without a model, and while it has none SetIntrinsics
\* and AddParametersToProblem fail with ConfigurationError whatever else has
\* been set, change nothing of the sensor and register no block.
C3_NoModelIsConfigurationError ==
  camera_model_ = NullModel /\ [][C3_Step]_vars

\* AddParametersToProblem failed on a model-less camera whose extrinsics,
\* image size, flags and measurements had all been set.
C3_Witness ==
  /\ call_op = "AddParametersToProblem"
  /\ call_status = ConfigurationError
  /\ camera_model_ = NullModel
  /\ T_sensorrig_sensor_ # "identity"
  /\ image_size_.written
  /\ intrinsics_enabled_.written /\ extrinsics_enabled_.written
  /\ id_to_measurement_ # {}

C4_Step ==
  (camera_model_ # NullModel /\ call_op' = "SetIntrinsics") =>
    LET v == call_arg'
        N == NumberOfParameters(camera_model_) IN
    /\ call_status' \in { Ok, ConfigurationError }
    /\ call_status' = Ok <=> Len(v) = N
    /\ call_status' = Ok => GetIntrinsics' = v
    /\ call_status' = ConfigurationError => GetIntrinsics' = GetIntrinsics

\* C4: with a model of N parameters, SetIntrinsics(v) succeeds exactly when
\* v has N entries and GetIntrinsics() then returns v; any other size fails
\* with ConfigurationError and GetIntrinsics() returns what it did before.
C4_SetGetIntrinsics == [][C4_Step]_vars

\* A vector one short of the model's count was rejected and the intrinsics
\* set by an earlier call are still returned.
C4_Witness ==
  /\ call_op = "SetIntrinsics"
  /\ call_status = ConfigurationError
  /\ camera_model_ # NullModel
  /\ Len(call_arg) = NumberOfParameters(camera_model_) - 1
  /\ GetIntrinsics \in IntrinsicsInputs

C5_Sized ==
  camera_model_ # NullModel => Len(intrinsics_) = NumberOfParameters(camera_model_)

C5_Step ==
  call_op' = "SetModel" =>
    /\ call_status' \in { Ok, ConfigurationError }
    /\ call_status' = ConfigurationError <=> Create(call_arg') = NullModel
    /\ Create(call_arg') = NullModel <=> call_arg' \notin Recognized
    /\ call_status' = Ok =>
         /\ camera_model_' # NullModel
         /\ Len(intrinsics_') = NumberOfParameters(camera_model_')
         /\ intrinsics_ \in IntrinsicsInputs => intrinsics_' # intrinsics_

\* C5: SetModel fails with ConfigurationError exactly for the kinds for which
\* Create returns no model, which are all kinds but kOpenCv5 and
\* kKannalaBrandt; a successful SetModel drops the intrinsics stored before,
\* so a camera never holds a model with intrinsics of another size.
C5_SetModelAndFactory == [] C5_Sized /\ [][C5_Step]_vars

\* SetModel(kKannalaBrandt) succeeded and the intrinsics are a fresh vector
\* of that model's size.
C5_Witness ==
  /\ call_op = "SetModel"
  /\ call_arg = "kKannalaBrandt"
  /\ call_status = Ok
  /\ camera_model_ = "KannalaBrandtModel"
  /\ intrinsics_ \notin IntrinsicsInputs

C6_Step ==
  /\ (camera_model_ # NullModel /\ call_op' = "AddParametersToProblem") =>
       LET N == NumberOfParameters(camera_model_) IN
       /\ call_status' = Ok
       /\ call_ret' = N + 7
       /\ Cardinality(problem') = 2
       /\ \E ic, ec \in BOOLEAN :
            /\ problem' = { Block("intrinsics", N, ic), Block("extrinsics", 7, ec) }
            /\ intrinsics_enabled_.written => ic = ~intrinsics_enabled_.value
            /\ extrinsics_enabled_.written => ec = ~extrinsics_enabled_.value
  /\ call_op' = "EnableIntrinsicsParameters" =>
       intrinsics_enabled_' = Written(call_arg')
  /\ call_op' = "EnableExtrinsicsParameters" =>
       extrinsics_enabled_' = Written(call_arg')

\* C6: with a model of N parameters, AddParametersToProblem registers exactly
\* two blocks, intrinsics of size N and extrinsics of size 7, whatever the
\* enable flags are; a block is marked constant exactly when its flag, as
\* last set by Enable*Parameters, is false; the call returns N + 7.
C6_TwoBlocksAlways == [][C6_Step]_vars

\* Both blocks registered with the intrinsics held constant and the
\* extrinsics free.
C6_Witness ==
  /\ call_op = "AddParametersToProblem"
  /\ call_status = Ok
  /\ intrinsics_enabled_ = Written(FALSE)
  /\ extrinsics_enabled_ = Written(TRUE)
  /\ problem = { Block("intrinsics", 8, TRUE), Block("extrinsics", 7, FALSE) }

(***************************************************************************)
(* Gyroscope cost functor: properties                                      *)
(***************************************************************************)
Finished(t) == pc[t] \in { "done", "fault" }

SameInputs(t, u) ==
  /\ functors[args[t].fn] = functors[args[u].fn]
  /\ args[t].parameters = args[u].parameters
  /\ args[t].buffer0 = args[u].buffer0

\* Two finished evaluations of equal snapshots on equal parameter arrays
\* ended alike.
C7_Function ==
  \A t, u \in Threads :
    (Finished(t) /\ Finished(u) /\ SameInputs(t, u)) =>
      /\ pc[t] = pc[u]
      /\ ret[t] = ret[u]
      /\ residual[t] = residual[u]

\* No step changes a constructed functor or the arguments of a running
\* evaluation, and a thread that takes no step keeps its residual buffer.
C7_Step ==
  /\ \A f \in FunctorIds : functors[f].constructed => functors'[f] = functors[f]
  /\ \A t \in Threads :
       /\ pc[t] \in { "entered", "parsed" } => args'[t] = args[t]
       /\ pc'[t] = pc[t] => residual'[t] = residual[t]

\* C7: an evaluation of operator() is a function of the functor's three
\* captured members and the parameter arrays: it changes neither, writes
\* only its caller's residual buffer, and under any interleaving with other
\* evaluations gives the result it gives alone.
C7_PureEvaluation == [] C7_Function /\ [][C7_Step]_vars

C8_Outcome(t) ==
  LET projection == locals[t].projection
      measurement == functors[args[t].fn].measurement_ IN
  \/ /\ ~projection.ok
     /\ ret[t] = "false"
     /\ residual[t] = args[t].buffer0
  \/ /\ projection.ok
     /\ ret[t] = "true"
     /\ \A i \in 1..3 :
          /\ residual[t][i].k = measurement[i] - projection.value[i].k
          /\ residual[t][i].k1 = 0 - projection.value[i].k1
          /\ residual[t][i].k2 = 0 - projection.value[i].k2

C10_LayoutWithinBlocks ==
  \A t \in Threads :
    pc[t] \in { "parsed", "done", "fault" } =>
      LET f == functors[args[t].fn]
          tep == f.trajectory_evaluation_params_ IN
      /\ locals[t].positions = 0..4
      /\ Len(args[t].parameters) = NumBlocks(f)
      /\ \A i \in locals[t].positions : i < Len(args[t].parameters)
      /\ BlockSizes(f) =
           << GyroNumberOfParameters(f.gyroscope_model_), 4, 3, 1,
              6 * tep.num_control_points >>
      /\ tep.spline_index + SplineOrder <= tep.num_control_points

====
